---- MODULE Spec2Model ----
(***************************************************************************)
(* Model of the Word task-pane add-in (vadipudi/word_add_in).              *)
(*                                                                         *)
(* Three drafts of the add-in are modelled side by side:                   *)
(*   "cc"      src/src/taskpane/taskpane.js lines 1-913   (content         *)
(*             controls first, paragraph scan as fallback)                 *)
(*   "outline" src/src/taskpane/taskpane.js lines 915-1409 (outline        *)
(*             levels)                                                     *)
(*   "offset"  src/unnamed/part_000 (paragraph scan with range offsets)    *)
(*                                                                         *)
(* Strings that the code inspects character by character (style names,     *)
(* content-control titles and tags) are sequences of one-character         *)
(* strings.  Paragraph texts, of which the code only uses trim(), the      *)
(* truth value and the length, are run-length encoded: a sequence of       *)
(* <<character, count>> runs.                                              *)
(***************************************************************************)
EXTENDS Integers, Sequences, FiniteSets, Bags, TLC

VARIABLES
  draft,            \* which draft of the add-in is loaded
  paragraphs,       \* host document: context.document.body.paragraphs.items
  contentControls,  \* host document: context.document.contentControls.items
  currentTocItems,  \* the process-wide TOC cache
  tocContent,       \* innerHTML of the "toc-content" element
  toc,              \* the bag of invocations of getTableOfContents in flight
  lastExtraction,   \* the invocation that stored its result last: its tocItems
  tocPromise,       \* how the promise of the getTableOfContents that ended last settled
  autoTrackInterval, \* the id of the interval timer, 0 for null
  timers,           \* host: the ids of the interval timers that are active
  polls,            \* the bag of invocations of getCurrentSection in flight
  navs,             \* the bag of invocations of navigateToSection in flight
  style,            \* input of the level helpers
  outlineLevel,     \* input of the level helpers
  levels,           \* results of the level helpers
  sectionHeadings,  \* input of findSectionFromPosition
  cursorPosition,   \* input of the resolvers
  currentSection    \* result of the resolvers

vars == <<draft, paragraphs, contentControls, currentTocItems, tocContent, toc,
          lastExtraction, tocPromise, autoTrackInterval, timers, polls, navs,
          style, outlineLevel, levels,
          sectionHeadings, cursorPosition, currentSection>>

docVars == <<draft, paragraphs, contentControls>>
levelVars == <<style, outlineLevel, levels>>
resolverVars == <<sectionHeadings, cursorPosition, currentSection>>
tocVars == <<currentTocItems, tocContent, toc, lastExtraction, tocPromise>>
readerVars == <<autoTrackInterval, timers, polls, navs>>

(***************************************************************************)
(* Bounds of the model.                                                    *)
(***************************************************************************)
MaxDigits == 2
MaxOutlineLevel == 10
MaxInvocations == 2
MaxParagraphs == 3
MaxControls == 1
MaxTimers == 2
MaxPolls == 1
MaxNavigations == 1

NoInvocations == EmptyBag
NoExtraction == [stored |-> FALSE]

(***************************************************************************)
(* Strings.                                                                *)
(***************************************************************************)
Str_Heading == <<"H", "e", "a", "d", "i", "n", "g">>
Str_Title == <<"T", "i", "t", "l", "e">>
Str_Normal == <<"N", "o", "r", "m", "a", "l">>

DigitChars == {"0", "1", "2", "3", "4", "5", "6", "7", "8", "9"}

DigitValue(c) ==
  CASE c = "0" -> 0 [] c = "1" -> 1 [] c = "2" -> 2 [] c = "3" -> 3
    [] c = "4" -> 4 [] c = "5" -> 5 [] c = "6" -> 6 [] c = "7" -> 7
    [] c = "8" -> 8 [] c = "9" -> 9

\* s.substring(p - 1, p - 1 + n), with p a 1-based position
Sub(s, p, n) == [i \in 1..n |-> s[p + i - 1]]

\* the 1-based positions at which sub occurs in s
Occurrences(s, sub) ==
  {p \in 1..(Len(s) - Len(sub) + 1) : Sub(s, p, Len(sub)) = sub}

\* String.prototype.includes
Includes(s, sub) == Occurrences(s, sub) # {}

Min(S) == CHOOSE x \in S : \A y \in S : x <= y

\* the greedy match of \d+ that starts at position p (empty if s[p] is no digit)
RECURSIVE DigitRun(_, _)
DigitRun(s, p) ==
  IF p <= Len(s) /\ s[p] \in DigitChars
  THEN <<s[p]>> \o DigitRun(s, p + 1)
  ELSE <<>>

\* parseInt of a non-empty string of decimal digits
RECURSIVE parseInt(_)
parseInt(d) ==
  IF Len(d) = 0 THEN 0
  ELSE 10 * parseInt(SubSeq(d, 1, Len(d) - 1)) + DigitValue(d[Len(d)])

\* style.match(/(\d+)/): the capture group of the leftmost match, <<>> for null
MatchDigits(s) ==
  LET starts == {p \in 1..Len(s) : s[p] \in DigitChars}
  IN IF starts = {} THEN <<>> ELSE DigitRun(s, Min(starts))

\* style.match(/Heading(\d+)/): the capture group of the leftmost match, <<>> for null
MatchHeadingDigits(s) ==
  LET starts == {p \in Occurrences(s, Str_Heading) :
                   p + 7 <= Len(s) /\ s[p + 7] \in DigitChars}
  IN IF starts = {} THEN <<>> ELSE DigitRun(s, Min(starts) + 7)

(***************************************************************************)
(* Level helpers.  An absent (undefined) outline level is <<>>, a present  *)
(* one is <<n>>; a falsy styleBuiltIn is the empty string <<>>.            *)
(***************************************************************************)
\* taskpane.js: function getHeadingLevel(style)
getHeadingLevel(s) ==
  IF s = Str_Title THEN 0
  ELSE IF Includes(s, Str_Heading)
       THEN (IF MatchDigits(s) # <<>> THEN parseInt(MatchDigits(s)) ELSE 1)
       ELSE 1

\* taskpane.js: function getHeadingLevelSimple(style)
getHeadingLevelSimple(s) ==
  IF s = Str_Title THEN 0
  ELSE IF Includes(s, Str_Heading)
       THEN (IF MatchDigits(s) # <<>> THEN parseInt(MatchDigits(s)) ELSE 1)
       ELSE 1

\* outlineLevel !== undefined && outlineLevel < 9
OutlineIsHeading(ol) == ol # <<>> /\ ol[1] < 9

\* part_000: function getHeadingLevel(styleBuiltIn, outlineLevel)
getHeadingLevel_part000(styleBuiltIn, ol) ==
  IF styleBuiltIn # <<>> /\ styleBuiltIn = Str_Title THEN 0
  ELSE IF styleBuiltIn # <<>> /\ Includes(styleBuiltIn, Str_Heading)
          /\ MatchHeadingDigits(styleBuiltIn) # <<>>
       THEN parseInt(MatchHeadingDigits(styleBuiltIn))
       ELSE IF OutlineIsHeading(ol) THEN ol[1] ELSE 1

(***************************************************************************)
(* Specification of the level helpers: the inputs are drawn at Init, the   *)
(* action applies the three helpers that the extraction drafts call.       *)
(***************************************************************************)
RECURSIVE SeqsUpTo(_, _)
SeqsUpTo(S, n) ==
  IF n = 0 THEN {<<>>}
  ELSE LET shorter == SeqsUpTo(S, n - 1)
       IN shorter \cup {Append(q, x) : q \in shorter, x \in S}

StyleWords == {<<>>, Str_Heading, Str_Title, Str_Normal}
StyleSeparators == {<<>>, <<" ">>}
StyleDigits == SeqsUpTo({"0", "1", "3", "9"}, MaxDigits)
Styles == {w \o sep \o d : w \in StyleWords, sep \in StyleSeparators, d \in StyleDigits}
OutlineLevels == {<<>>} \cup {<<n>> : n \in 0..MaxOutlineLevel}

NoLevels == [computed |-> FALSE]

InitIdleDocument ==
  /\ draft = "none"
  /\ paragraphs = <<>>
  /\ contentControls = <<>>
  /\ currentTocItems = <<>>
  /\ tocContent = [kind |-> "initial"]
  /\ toc = NoInvocations
  /\ lastExtraction = NoExtraction
  /\ tocPromise = "none"

InitIdleReaders ==
  /\ autoTrackInterval = 0
  /\ timers = {}
  /\ polls = EmptyBag
  /\ navs = EmptyBag

InitIdleLevel ==
  /\ style = <<>>
  /\ outlineLevel = <<>>
  /\ levels = NoLevels

InitIdleResolver ==
  /\ sectionHeadings = <<>>
  /\ cursorPosition = 0
  /\ currentSection = [computed |-> FALSE]

InitLevel ==
  /\ InitIdleDocument
  /\ InitIdleReaders
  /\ InitIdleResolver
  /\ style \in Styles
  /\ outlineLevel \in OutlineLevels
  /\ levels = NoLevels

ApplyLevelHelpers ==
  /\ ~levels.computed
  /\ levels' = [computed |-> TRUE,
                getHeadingLevel |-> getHeadingLevel(style),
                getHeadingLevelSimple |-> getHeadingLevelSimple(style),
                getHeadingLevel_part000 |-> getHeadingLevel_part000(style, outlineLevel)]
  /\ UNCHANGED <<style, outlineLevel>>
  /\ UNCHANGED <<docVars, tocVars, resolverVars, readerVars>>

NextLevel == ApplyLevelHelpers

SpecLevel == InitLevel /\ [][NextLevel]_vars

(***************************************************************************)
(* C10: a style "Heading N" gives level N (for instance "Heading 3" gives  *)
(* 3) and a style "Heading" without digits gives level 1, in each of the   *)
(* three level helpers that extraction uses.                               *)
(***************************************************************************)
IsHeadingSpaceN(s) ==
  /\ Len(s) > 8
  /\ Sub(s, 1, 8) = Str_Heading \o <<" ">>
  /\ \A p \in 9..Len(s) : s[p] \in DigitChars

C10_HeadingStyleLevel ==
  levels.computed =>
    /\ IsHeadingSpaceN(style) =>
         LET n == parseInt(Sub(style, 9, Len(style) - 8))
         IN /\ levels.getHeadingLevel = n
            /\ levels.getHeadingLevelSimple = n
            /\ levels.getHeadingLevel_part000 = n
    /\ style = Str_Heading =>
         /\ levels.getHeadingLevel = 1
         /\ levels.getHeadingLevelSimple = 1
         /\ levels.getHeadingLevel_part000 = 1

(***************************************************************************)
(* Position resolvers.  A heading text of the resolver inputs is the       *)
(* run-length encoded string of k letters "a".                             *)
(***************************************************************************)
MaxEntries == 3
MaxOffset == 4

Null == [isNull |-> TRUE]

\* the loop of findSectionFromPosition from index i on (0-based): the index
\* at which it breaks, -1 if it runs to the end
RECURSIVE ScanSectionHeadings(_, _, _)
ScanSectionHeadings(cursor, headings, i) ==
  IF i >= Len(headings) THEN -1
  ELSE IF /\ cursor >= headings[i + 1].start
          /\ (i + 1 >= Len(headings) \/ cursor < headings[i + 2].start)
       THEN i
       ELSE ScanSectionHeadings(cursor, headings, i + 1)

\* Mutant of findSectionFromPosition: the scan stops at the first heading at or
\* before the cursor, without looking at the start of the next heading.
findSectionFromPosition_FirstAtOrBefore(cursor, headings) ==
  LET hits == {i \in 1..Len(headings) : cursor >= headings[i].start}
  IN IF hits = {} THEN Null ELSE headings[Min(hits)]

\* taskpane.js: function findSectionFromPosition(cursorPosition, sectionHeadings)
findSectionFromPosition(cursor, headings) ==
  LET i == ScanSectionHeadings(cursor, headings, 0)
  IN IF i = -1 THEN Null ELSE headings[i + 1]

\* the loop of findCurrentSection over the cache from index i on (0-based)
RECURSIVE ScanTocItems(_, _, _)
ScanTocItems(currentPosition, items, i) ==
  IF i >= Len(items) THEN -1
  ELSE IF /\ currentPosition >= items[i + 1].start
          /\ (i + 1 >= Len(items) \/ currentPosition < items[i + 2].start)
       THEN i
       ELSE ScanTocItems(currentPosition, items, i + 1)

\* Mutant of findCurrentSection: the next heading's start is compared with <=,
\* so that the scan stops at the first entry of a run of equal starts.
findCurrentSection_InclusiveNext(currentPosition) ==
  LET hits == {i \in 1..Len(currentTocItems) :
                 /\ currentPosition >= currentTocItems[i].start
                 /\ (i = Len(currentTocItems)
                     \/ currentPosition <= currentTocItems[i + 1].start)}
  IN IF hits = {}
     THEN [text |-> "Before first heading", level |-> 0, index |-> -1]
     ELSE [text |-> currentTocItems[Min(hits)].text,
           level |-> currentTocItems[Min(hits)].level,
           style |-> currentTocItems[Min(hits)].style,
           index |-> Min(hits) - 1,
           start |-> currentTocItems[Min(hits)].start,
           end |-> currentTocItems[Min(hits)].end]

\* part_000: function findCurrentSection(currentPosition), reading the cache
findCurrentSection(currentPosition) ==
  IF Len(currentTocItems) = 0
  THEN [text |-> "No TOC available", level |-> 0, index |-> -1]
  ELSE LET i == ScanTocItems(currentPosition, currentTocItems, 0)
       IN IF i = -1
          THEN [text |-> "Before first heading", level |-> 0, index |-> -1]
          ELSE [text |-> currentTocItems[i + 1].text,
                level |-> currentTocItems[i + 1].level,
                style |-> currentTocItems[i + 1].style,
                index |-> i,
                start |-> currentTocItems[i + 1].start,
                end |-> currentTocItems[i + 1].end]

(***************************************************************************)
(* Specification of the resolvers.  The inputs are the sequences the       *)
(* callers can pass: findHeadingsByStyle returns headings sorted by the    *)
(* (distinct) range starts of their paragraphs; the cache of part_000      *)
(* holds the range starts in document order, with 0 in place of every      *)
(* start whose read failed.                                                *)
(***************************************************************************)
Letters(k) == <<<<"a", k>>>>

AscendingStarts ==
  {q \in SeqsUpTo(0..MaxOffset, MaxEntries) :
     \A i \in 1..(Len(q) - 1) : q[i] < q[i + 1]}

SortedHeadingInputs ==
  {[i \in 1..Len(q) |->
      [title |-> Letters(i), start |-> q[i], end |-> q[i] + i, style |-> Str_Heading]] :
   q \in AscendingStarts}

CacheInputs ==
  {[i \in 1..Len(q) |->
      [text |-> Letters(i), level |-> 1, style |-> Str_Heading,
       start |-> IF i \in failed THEN 0 ELSE q[i],
       end |-> IF i \in failed THEN 0 ELSE q[i] + i,
       index |-> i - 1]] :
   q \in AscendingStarts, failed \in SUBSET (1..MaxEntries)}

Cursors == (0 - 1)..(MaxOffset + 1)

InitResolver ==
  /\ InitIdleLevel
  /\ InitIdleReaders
  /\ draft \in {"cc", "offset"}
  /\ paragraphs = <<>>
  /\ contentControls = <<>>
  /\ tocContent = [kind |-> "initial"]
  /\ toc = NoInvocations
  /\ lastExtraction = NoExtraction
  /\ tocPromise = "none"
  /\ IF draft = "cc"
     THEN sectionHeadings \in SortedHeadingInputs /\ currentTocItems = <<>>
     ELSE sectionHeadings = <<>> /\ currentTocItems \in CacheInputs
  /\ cursorPosition \in Cursors
  /\ currentSection = [computed |-> FALSE]

ApplyFindSectionFromPosition ==
  /\ draft = "cc"
  /\ ~currentSection.computed
  /\ currentSection' = [computed |-> TRUE,
                        result |-> findSectionFromPosition(cursorPosition, sectionHeadings)]
  /\ UNCHANGED <<sectionHeadings, cursorPosition>>
  /\ UNCHANGED <<docVars, tocVars, levelVars, readerVars>>

ApplyFindCurrentSection ==
  /\ draft = "offset"
  /\ ~currentSection.computed
  /\ currentSection' = [computed |-> TRUE,
                        result |-> findCurrentSection(cursorPosition)]
  /\ UNCHANGED <<sectionHeadings, cursorPosition>>
  /\ UNCHANGED <<docVars, tocVars, levelVars, readerVars>>

NextResolver == ApplyFindSectionFromPosition \/ ApplyFindCurrentSection

SpecResolver == InitResolver /\ [][NextResolver]_vars

\* the sequence the applied resolver scanned
ResolverEntries == IF draft = "cc" THEN sectionHeadings ELSE currentTocItems

StrictlyAscending(entries) ==
  \A i \in 1..(Len(entries) - 1) : entries[i].start < entries[i + 1].start

NonDecreasing(entries) ==
  \A i \in 1..(Len(entries) - 1) : entries[i].start <= entries[i + 1].start

\* the resolver returned entry i (1-based) of the sequence it scanned
ReturnedEntry(i) ==
  IF draft = "cc"
  THEN currentSection.result = sectionHeadings[i]
  ELSE /\ currentSection.result.index = i - 1
       /\ currentSection.result.text = currentTocItems[i].text
       /\ currentSection.result.start = currentTocItems[i].start
       /\ currentSection.result.end = currentTocItems[i].end

\* the resolver returned its "before first section" sentinel
ReturnedSentinel ==
  IF draft = "cc"
  THEN currentSection.result = Null
  ELSE currentSection.result.index = -1

(***************************************************************************)
(* C1: for strictly ascending starts and a cursor at or after the first    *)
(* start, the resolver returns exactly the entry i with                    *)
(* entries[i].start <= cursor < entries[i+1].start, or the last entry when *)
(* the cursor is at or after its start.                                    *)
(***************************************************************************)
C1_ResolverInterval ==
  LET entries == ResolverEntries
  IN (/\ currentSection.computed
      /\ Len(entries) > 0
      /\ StrictlyAscending(entries)
      /\ cursorPosition >= entries[1].start)
     => \E i \in 1..Len(entries) :
          /\ entries[i].start <= cursorPosition
          /\ (i = Len(entries) \/ cursorPosition < entries[i + 1].start)
          /\ ReturnedEntry(i)
          /\ \A j \in 1..Len(entries) : ReturnedEntry(j) => j = i

\* three ascending entries, the cursor strictly inside the middle section
C1_Witness ==
  /\ currentSection.computed
  /\ draft = "cc"
  /\ Len(sectionHeadings) = 3
  /\ sectionHeadings[2].start < cursorPosition
  /\ cursorPosition < sectionHeadings[3].start
  /\ currentSection.result = sectionHeadings[2]

(***************************************************************************)
(* C2: the resolver returns the "before first section" sentinel whenever   *)
(* the sequence is empty or the cursor is less than the first entry's      *)
(* start, for every integer cursor.                                        *)
(***************************************************************************)
C2_SentinelBeforeFirst ==
  LET entries == ResolverEntries
  IN (/\ currentSection.computed
      /\ (Len(entries) = 0 \/ cursorPosition < entries[1].start))
     => ReturnedSentinel

(***************************************************************************)
(* C3 as claimed: when two consecutive entries have the same start and the *)
(* cursor is at or after that offset and before any later entry's start,   *)
(* the entry with the earlier index is returned.                           *)
(***************************************************************************)
TiedPair(entries, i) ==
  /\ i + 1 <= Len(entries)
  /\ entries[i].start = entries[i + 1].start
  /\ cursorPosition >= entries[i].start
  /\ \A j \in (i + 2)..Len(entries) : cursorPosition < entries[j].start

C3_TieBreakEarlierWins ==
  LET entries == ResolverEntries
  IN currentSection.computed =>
       \A i \in 1..Len(entries) : TiedPair(entries, i) => ReturnedEntry(i)

(***************************************************************************)
(* C3 as amended: when two consecutive entries have the same start and the *)
(* cursor is at or after that offset, the earlier of the two is never      *)
(* returned; if moreover the sequence is in non-decreasing order of start  *)
(* and the cursor is before any later entry's start, the later of the two  *)
(* is the entry returned.                                                  *)
(***************************************************************************)
C3_TieBreakLaterWins ==
  LET entries == ResolverEntries
  IN currentSection.computed =>
       \A i \in 1..Len(entries) :
         /\ (/\ i + 1 <= Len(entries)
             /\ entries[i].start = entries[i + 1].start
             /\ cursorPosition >= entries[i].start)
            => ~ReturnedEntry(i)
         /\ (TiedPair(entries, i) /\ NonDecreasing(entries)) => ReturnedEntry(i + 1)

\* a cache of three entries whose first two starts are equal, the cursor between
\* the tie and the third start: the second entry is returned
C3_Witness ==
  /\ currentSection.computed
  /\ draft = "offset"
  /\ Len(currentTocItems) = 3
  /\ currentTocItems[1].start = currentTocItems[2].start
  /\ cursorPosition >= currentTocItems[1].start
  /\ cursorPosition < currentTocItems[3].start
  /\ currentSection.result.index = 1

(***************************************************************************)
(* Texts (run-length encoded) and the remaining string operations.         *)
(***************************************************************************)
HeadingTextCeiling == 200

Whitespace == {" "}

RECURSIVE TrimStart(_)
TrimStart(t) ==
  IF t # <<>> /\ t[1][1] \in Whitespace THEN TrimStart(Tail(t)) ELSE t

RECURSIVE TrimEnd(_)
TrimEnd(t) ==
  IF t # <<>> /\ t[Len(t)][1] \in Whitespace
  THEN TrimEnd(SubSeq(t, 1, Len(t) - 1))
  ELSE t

\* String.prototype.trim
Trim(t) == TrimEnd(TrimStart(t))

\* String length
RECURSIVE TextLength(_)
TextLength(t) == IF t = <<>> THEN 0 ELSE t[1][2] + TextLength(Tail(t))

UpperLetters == <<"A", "B", "C", "D", "E", "F", "G", "H", "I", "J", "K", "L", "M",
                  "N", "O", "P", "Q", "R", "S", "T", "U", "V", "W", "X", "Y", "Z">>
LowerLetters == <<"a", "b", "c", "d", "e", "f", "g", "h", "i", "j", "k", "l", "m",
                  "n", "o", "p", "q", "r", "s", "t", "u", "v", "w", "x", "y", "z">>

\* String.prototype.toLowerCase
ToLowerCase(s) ==
  [i \in 1..Len(s) |->
     IF \E k \in 1..Len(UpperLetters) : UpperLetters[k] = s[i]
     THEN LowerLetters[CHOOSE k \in 1..Len(UpperLetters) : UpperLetters[k] = s[i]]
     ELSE s[i]]

str_heading == <<"h", "e", "a", "d", "i", "n", "g">>
str_title == <<"t", "i", "t", "l", "e">>
str_level == <<"l", "e", "v", "e", "l">>
str_section == <<"s", "e", "c", "t", "i", "o", "n">>
Str_Unknown == <<"U", "n", "k", "n", "o", "w", "n">>
Str_ContentControl ==
  <<"C", "o", "n", "t", "e", "n", "t", " ", "C", "o", "n", "t", "r", "o", "l">>

\* the position after the greedy match of \s* that starts at position p
RECURSIVE SkipSpaces(_, _)
SkipSpaces(s, p) ==
  IF p <= Len(s) /\ s[p] \in Whitespace THEN SkipSpaces(s, p + 1) ELSE p

\* the capture of word\s*(\d+) matched at position p, <<>> if it does not match there
WordDigitsAt(s, p, word) ==
  IF p + Len(word) - 1 <= Len(s) /\ Sub(s, p, Len(word)) = word
  THEN DigitRun(s, SkipSpaces(s, p + Len(word)))
  ELSE <<>>

\* the capture of /heading\s*(\d+)|h(\d+)|level\s*(\d+)/ matched at position p:
\* the alternatives are tried in order, and \s* does not need to give back
\* (the character after the spaces is a digit or the alternative fails)
ControlLevelAt(s, p) ==
  IF WordDigitsAt(s, p, str_heading) # <<>> THEN WordDigitsAt(s, p, str_heading)
  ELSE IF p + 1 <= Len(s) /\ s[p] = "h" /\ DigitRun(s, p + 1) # <<>>
       THEN DigitRun(s, p + 1)
       ELSE WordDigitsAt(s, p, str_level)

\* text.match(/heading\s*(\d+)|h(\d+)|level\s*(\d+)/): match[1] || match[2] || match[3]
\* of the leftmost match, <<>> for null
MatchControlLevel(s) ==
  LET starts == {p \in 1..Len(s) : ControlLevelAt(s, p) # <<>>}
  IN IF starts = {} THEN <<>> ELSE ControlLevelAt(s, Min(starts))

\* taskpane.js: function extractLevelFromControl(title, tag)
extractLevelFromControl(title, tag) ==
  LET text == ToLowerCase(title \o <<" ">> \o tag)
  IN IF Includes(text, str_title) THEN 0
     ELSE IF MatchControlLevel(text) # <<>>
          THEN LET level == parseInt(MatchControlLevel(text))
               IN IF level > 0 /\ level < 10 THEN level ELSE 1
          ELSE 1

(***************************************************************************)
(* Extraction: the synchronous processing loops of getTableOfContents.     *)
(***************************************************************************)
\* index: tocItems.length, the index a newly pushed entry receives
NextIndex_OneBased(tocItems) == Len(tocItems) + 1

NextIndex(tocItems) == Len(tocItems)

\* title.toLowerCase().includes("heading") || tag.toLowerCase().includes("heading")
\*   || title.toLowerCase().includes("title")
ControlIsHeading(control) ==
  \/ Includes(ToLowerCase(control.title), str_heading)
  \/ Includes(ToLowerCase(control.tag), str_heading)
  \/ Includes(ToLowerCase(control.title), str_title)

\* title || tag || "Content Control"
ControlStyle(control) ==
  IF control.title # <<>> THEN control.title
  ELSE IF control.tag # <<>> THEN control.tag ELSE Str_ContentControl

\* taskpane.js getTableOfContents (content-control draft): the loop over the
\* content controls from control i on, pushing onto tocItems
RECURSIVE ProcessContentControls(_, _, _)
ProcessContentControls(controls, i, tocItems) ==
  IF i > Len(controls) THEN tocItems
  ELSE LET control == controls[i]
           text == Trim(control.text)
       IN IF text # <<>> /\ ControlIsHeading(control)
          THEN ProcessContentControls(controls, i + 1,
                 Append(tocItems,
                   [text |-> text,
                    level |-> extractLevelFromControl(control.title, control.tag),
                    style |-> ControlStyle(control),
                    index |-> NextIndex(tocItems),
                    type |-> "contentControl"]))
          ELSE ProcessContentControls(controls, i + 1, tocItems)

\* taskpane.js getTableOfContents (content-control draft): the loop over the
\* paragraphs from paragraph i on, pushing onto tocItems
RECURSIVE ProcessParagraphs(_, _, _)
ProcessParagraphs(paras, i, tocItems) ==
  IF i > Len(paras) THEN tocItems
  ELSE LET para == paras[i]
           text == Trim(para.text)
           st == para.styleBuiltIn
       IN IF /\ text # <<>>
             /\ TextLength(text) < HeadingTextCeiling
             /\ (Includes(st, Str_Heading) \/ st = Str_Title)
          THEN ProcessParagraphs(paras, i + 1,
                 Append(tocItems,
                   [text |-> text,
                    level |-> getHeadingLevel(st),
                    style |-> st,
                    index |-> NextIndex(tocItems),
                    type |-> "paragraph"]))
          ELSE ProcessParagraphs(paras, i + 1, tocItems)

\* if (tocItems.length === 0): the paragraph scan is the fallback
FallbackToParagraphs_Always(tocItems) == TRUE

FallbackToParagraphs(tocItems) == Len(tocItems) = 0

\* outlineLevel < 9, false for undefined
OutlineBelowNine(ol) == ol # <<>> /\ ol[1] < 9

\* taskpane.js getTableOfContents (outline-level draft): the level of a paragraph
OutlineDraftLevel(para) ==
  IF OutlineBelowNine(para.outlineLevel)
  THEN para.outlineLevel[1]
  ELSE getHeadingLevelSimple(para.styleBuiltIn)

\* taskpane.js getTableOfContents (outline-level draft): paragraphs.items.forEach
RECURSIVE ProcessOutlineParagraphs(_, _, _)
ProcessOutlineParagraphs(paras, i, tocItems) ==
  IF i > Len(paras) THEN tocItems
  ELSE LET para == paras[i]
           text == Trim(para.text)
           st == para.styleBuiltIn
       IN IF /\ text # <<>>
             /\ \/ OutlineBelowNine(para.outlineLevel)
                \/ Includes(st, Str_Heading)
                \/ st = Str_Title
          THEN ProcessOutlineParagraphs(paras, i + 1,
                 Append(tocItems,
                   [text |-> text,
                    level |-> OutlineDraftLevel(para),
                    style |-> st,
                    outlineLevel |-> para.outlineLevel,
                    index |-> NextIndex(tocItems)]))
          ELSE ProcessOutlineParagraphs(paras, i + 1, tocItems)

\* insertion of an item into a sequence sorted by index, after the items with
\* an equal index (Array.prototype.sort is stable)
RECURSIVE InsertByIndex(_, _)
InsertByIndex(sorted, item) ==
  IF sorted = <<>> THEN <<item>>
  ELSE IF sorted[Len(sorted)].index <= item.index
       THEN Append(sorted, item)
       ELSE Append(InsertByIndex(SubSeq(sorted, 1, Len(sorted) - 1), item),
                   sorted[Len(sorted)])

\* tocItems.sort((a, b) => a.index - b.index)
RECURSIVE SortByIndex(_)
SortByIndex(items) ==
  IF items = <<>> THEN <<>>
  ELSE InsertByIndex(SortByIndex(SubSeq(items, 1, Len(items) - 1)), items[Len(items)])

\* part_000: function isHeading(paragraph)
isHeading(para) ==
  \/ /\ para.styleBuiltIn # <<>>
     /\ (Includes(para.styleBuiltIn, Str_Heading) \/ para.styleBuiltIn = Str_Title)
  \/ OutlineIsHeading(para.outlineLevel)

\* part_000 getTableOfContents: the first loop, over the paragraphs from
\* paragraph i on; an item keeps its paragraph (here: the paragraph's position)
RECURSIVE CollectHeadings(_, _, _)
CollectHeadings(paras, i, tocItems) ==
  IF i > Len(paras) THEN tocItems
  ELSE LET para == paras[i]
           text == Trim(para.text)
       IN IF isHeading(para) /\ text # <<>>
          THEN CollectHeadings(paras, i + 1,
                 Append(tocItems,
                   [text |-> text,
                    level |-> getHeadingLevel_part000(para.styleBuiltIn, para.outlineLevel),
                    style |-> IF para.styleBuiltIn # <<>> THEN para.styleBuiltIn
                              ELSE Str_Unknown,
                    paragraph |-> i,
                    index |-> i - 1]))
          ELSE CollectHeadings(paras, i + 1, tocItems)

\* host: paragraph.range.start, the offset of the first character of
\* paragraph i; a paragraph occupies its text and its paragraph mark
\* the characters that the paragraphs lo..hi occupy
RECURSIVE RangeLength(_, _, _)
RangeLength(paras, lo, hi) ==
  IF lo > hi THEN 0
  ELSE IF lo = hi THEN TextLength(paras[lo].text) + 1
  ELSE LET mid == (lo + hi) \div 2
       IN RangeLength(paras, lo, mid) + RangeLength(paras, mid + 1, hi)

RangeStart(paras, i) == RangeLength(paras, 1, i - 1)

\* host: paragraph.range.end
RangeEnd(paras, i) == RangeStart(paras, i) + TextLength(paras[i].text) + 1

\* Mutant of ExtractPositions: processedTocItems is not a fresh array but
\* goes on from the entries that the cache holds
ExtractPositions_Accumulating(paras, tocItems, failed) ==
  currentTocItems \o
  [i \in 1..Len(tocItems) |->
     IF i \in failed
     THEN [text |-> tocItems[i].text, level |-> tocItems[i].level,
           style |-> tocItems[i].style, start |-> 0, end |-> 0, index |-> i - 1]
     ELSE [text |-> tocItems[i].text, level |-> tocItems[i].level,
           style |-> tocItems[i].style,
           start |-> RangeStart(paras, tocItems[i].paragraph),
           end |-> RangeEnd(paras, tocItems[i].paragraph),
           index |-> i - 1]]

\* part_000 getTableOfContents: the second loop; failed is the set of positions
\* of tocItems at which reading the range throws
ExtractPositions(paras, tocItems, failed) ==
  [i \in 1..Len(tocItems) |->
     IF i \in failed
     THEN [text |-> tocItems[i].text, level |-> tocItems[i].level,
           style |-> tocItems[i].style, start |-> 0, end |-> 0, index |-> i - 1]
     ELSE [text |-> tocItems[i].text, level |-> tocItems[i].level,
           style |-> tocItems[i].style,
           start |-> RangeStart(paras, tocItems[i].paragraph),
           end |-> RangeEnd(paras, tocItems[i].paragraph),
           index |-> i - 1]]

\* part_000 getTableOfContents: between the two loops tocItems is a local and
\* the cache is not assigned
CacheDuringRangeLoad_Published(tocItems) == tocItems

CacheDuringRangeLoad(tocItems) == currentTocItems

\* function displayTableOfContents(tocItems): the content of the TOC panel
displayTableOfContents(tocItems) ==
  IF Len(tocItems) = 0
  THEN [kind |-> "empty"]
  ELSE [kind |-> "list",
        items |-> [i \in 1..Len(tocItems) |->
                     [index |-> i - 1,
                      level |-> tocItems[i].level,
                      text |-> tocItems[i].text,
                      style |-> tocItems[i].style]],
        current |-> -1]

\* Mutant of highlightCurrentSectionInTOC: the previous highlight is removed
\* only when another item is highlighted
highlightCurrentSectionInTOC_Sticky(content, section) ==
  IF content.kind # "list" THEN content
  ELSE IF section.index >= 0 /\ section.index < Len(content.items)
       THEN [content EXCEPT !.current = section.index]
       ELSE content

\* highlightCurrentSectionInTOC: current is the index of the rendered item
\* that carries the class "current-section", -1 when none does
highlightCurrentSectionInTOC(content, section) ==
  IF content.kind # "list" THEN content
  ELSE IF section.index >= 0 /\ section.index < Len(content.items)
       THEN [content EXCEPT !.current = section.index]
       ELSE [content EXCEPT !.current = -1]

(***************************************************************************)
(* The host document: the paragraphs and the content controls are a        *)
(* selection, in order, of the records below.                              *)
(***************************************************************************)
AllParagraphs ==
  <<[text |-> <<<<"a", 3>>>>, styleBuiltIn |-> Str_Normal, outlineLevel |-> <<9>>],
    [text |-> <<<<" ", 1>>, <<"b", 2>>, <<" ", 1>>>>, styleBuiltIn |-> Str_Title,
     outlineLevel |-> <<1>>],
    [text |-> <<<<"c", 4>>>>, styleBuiltIn |-> Str_Heading \o <<" ", "3">>,
     outlineLevel |-> <<>>],
    [text |-> <<<<"d", 5>>>>, styleBuiltIn |-> Str_Heading \o <<"2">>,
     outlineLevel |-> <<1>>],
    [text |-> <<<<"e", 6>>>>, styleBuiltIn |-> Str_Normal, outlineLevel |-> <<2>>],
    [text |-> <<<<" ", 2>>>>, styleBuiltIn |-> Str_Heading \o <<"1">>,
     outlineLevel |-> <<0>>]>>

AllControls ==
  <<[text |-> <<<<" ", 1>>, <<"k", 2>>>>, title |-> Str_Heading \o <<" ", "2">>,
     tag |-> <<>>],
    [text |-> <<<<"m", 3>>>>, title |-> <<"N", "o", "t", "e">>, tag |-> <<"x">>]>>

\* the k-th smallest element of a set of numbers
RECURSIVE Nth(_, _)
Nth(S, k) == IF k = 1 THEN Min(S) ELSE Nth(S \ {Min(S)}, k - 1)

\* the runs of n consecutive records of all, and all itself if it is shorter
Windows(all, n) ==
  IF Len(all) <= n THEN {all}
  ELSE {SubSeq(all, i, i + n - 1) : i \in 1..(Len(all) - n + 1)}

\* the selections of at most n records of all, in the order of all
Selections(all, n) ==
  {[k \in 1..Cardinality(S) |-> all[Nth(S, k)]] :
     S \in {T \in SUBSET (1..Len(all)) : Cardinality(T) <= n}}

(***************************************************************************)
(* getTableOfContents.  An invocation runs in segments that end at an      *)
(* await context.sync(); between two segments any other handler may run.   *)
(* toc holds the locals of the invocations in flight.                      *)
(***************************************************************************)
InFlight == BagToSet(toc)

Replace(inv, next) == (toc (-) SetToBag({inv})) (+) SetToBag({next})

Finish(inv) == toc (-) SetToBag({inv})

\* currentTocItems = tocItems; displayTableOfContents(currentTocItems)
StoreAndDisplay(inv, items, yield, scanned) ==
  /\ currentTocItems' = items
  /\ tocContent' = displayTableOfContents(items)
  /\ toc' = Finish(inv)
  /\ lastExtraction' = [stored |-> TRUE, tocItems |-> items,
                        ccYield |-> yield, paraScan |-> scanned]
  /\ tocPromise' = "fulfilled"

\* taskpane.js getTableOfContents, both drafts: the segment up to the first sync
Taskpane_Start ==
  /\ draft \in {"cc", "outline"}
  /\ BagCardinality(toc) < MaxInvocations
  /\ currentTocItems' = <<>>
  /\ tocContent' = [kind |-> "loading"]
  /\ toc' = toc (+) SetToBag({[pc |-> IF draft = "cc" THEN "cc_items" ELSE "para_items",
                               tocItems |-> <<>>, ccYield |-> 0,
                               paraScan |-> draft = "outline"]})
  /\ UNCHANGED <<lastExtraction, tocPromise>>
  /\ UNCHANGED <<docVars, levelVars, resolverVars, readerVars>>

\* content-control draft: the sync that loads contentControls.items resolves
Cc_ItemsLoaded ==
  \E inv \in InFlight :
    /\ draft = "cc"
    /\ inv.pc = "cc_items"
    /\ toc' = Replace(inv,
                IF Len(contentControls) > 0
                THEN [inv EXCEPT !.pc = "cc_props"]
                ELSE [inv EXCEPT !.pc = "para_items", !.paraScan = TRUE])
    /\ UNCHANGED <<currentTocItems, tocContent, lastExtraction, tocPromise>>
    /\ UNCHANGED <<docVars, levelVars, resolverVars, readerVars>>

\* Mutant of Cc_SyncFailed: without the inner try/catch the rejection reaches
\* the outer catch, which shows the error and ends the invocation
Cc_SyncFailed_Fatal ==
  \E inv \in InFlight :
    /\ draft = "cc"
    /\ inv.pc \in {"cc_items", "cc_props"}
    /\ tocContent' = [kind |-> "error"]
    /\ toc' = Finish(inv)
    /\ tocPromise' = "fulfilled"
    /\ UNCHANGED <<currentTocItems, lastExtraction>>
    /\ UNCHANGED <<docVars, levelVars, resolverVars, readerVars>>

\* content-control draft: a sync of the content-control pass rejects; the inner
\* catch swallows the error and the paragraph scan follows (tocItems is empty)
Cc_SyncFailed ==
  \E inv \in InFlight :
    /\ draft = "cc"
    /\ inv.pc \in {"cc_items", "cc_props"}
    /\ toc' = Replace(inv, [inv EXCEPT !.pc = "para_items", !.paraScan = TRUE])
    /\ UNCHANGED <<currentTocItems, tocContent, lastExtraction, tocPromise>>
    /\ UNCHANGED <<docVars, levelVars, resolverVars, readerVars>>

\* content-control draft: the sync that loads the controls' properties resolves
Cc_PropsLoaded ==
  \E inv \in InFlight :
    /\ draft = "cc"
    /\ inv.pc = "cc_props"
    /\ LET items == ProcessContentControls(contentControls, 1, inv.tocItems)
       IN IF FallbackToParagraphs(items)
          THEN /\ toc' = Replace(inv, [inv EXCEPT !.pc = "para_items", !.tocItems = items,
                                                  !.ccYield = Len(items), !.paraScan = TRUE])
               /\ UNCHANGED <<currentTocItems, tocContent, lastExtraction, tocPromise>>
          ELSE StoreAndDisplay(inv, items, Len(items), FALSE)
    /\ UNCHANGED <<docVars, levelVars, resolverVars, readerVars>>

\* taskpane.js, both drafts: the sync that loads paragraphs.items resolves
Taskpane_ParagraphItemsLoaded ==
  \E inv \in InFlight :
    /\ draft \in {"cc", "outline"}
    /\ inv.pc = "para_items"
    /\ toc' = Replace(inv, [inv EXCEPT !.pc = "para_props"])
    /\ UNCHANGED <<currentTocItems, tocContent, lastExtraction, tocPromise>>
    /\ UNCHANGED <<docVars, levelVars, resolverVars, readerVars>>

\* content-control draft: the sync that loads the paragraphs' properties resolves
Cc_ParagraphsLoaded ==
  \E inv \in InFlight :
    /\ draft = "cc"
    /\ inv.pc = "para_props"
    /\ StoreAndDisplay(inv, ProcessParagraphs(paragraphs, 1, inv.tocItems), inv.ccYield, TRUE)
    /\ UNCHANGED <<docVars, levelVars, resolverVars, readerVars>>

\* outline-level draft: the sync that loads the paragraphs' properties resolves
Outline_ParagraphsLoaded ==
  \E inv \in InFlight :
    /\ draft = "outline"
    /\ inv.pc = "para_props"
    /\ StoreAndDisplay(inv,
         SortByIndex(ProcessOutlineParagraphs(paragraphs, 1, inv.tocItems)), 0, TRUE)
    /\ UNCHANGED <<docVars, levelVars, resolverVars, readerVars>>

\* part_000 getTableOfContents: the segment up to the first sync
Offset_Start ==
  /\ draft = "offset"
  /\ BagCardinality(toc) < MaxInvocations
  /\ toc' = toc (+) SetToBag({[pc |-> "para_props", tocItems |-> <<>>, ccYield |-> 0,
                               paraScan |-> TRUE]})
  /\ UNCHANGED <<currentTocItems, tocContent, lastExtraction, tocPromise>>
  /\ UNCHANGED <<docVars, levelVars, resolverVars, readerVars>>

\* part_000: the sync that loads the paragraphs resolves; the first loop runs
Offset_ParagraphsLoaded ==
  \E inv \in InFlight :
    /\ draft = "offset"
    /\ inv.pc = "para_props"
    /\ LET items == CollectHeadings(paragraphs, 1, <<>>)
       IN /\ toc' = Replace(inv, [inv EXCEPT !.pc = "ranges", !.tocItems = items])
          /\ currentTocItems' = CacheDuringRangeLoad(items)
    /\ UNCHANGED <<tocContent, lastExtraction, tocPromise>>
    /\ UNCHANGED <<docVars, levelVars, resolverVars, readerVars>>

\* part_000: the sync that loads the ranges resolves; the second loop runs, and
\* reading the range of any of the items may throw
Offset_RangesLoaded ==
  \E inv \in InFlight :
    /\ draft = "offset"
    /\ inv.pc = "ranges"
    /\ \E failed \in SUBSET (1..Len(inv.tocItems)) :
         StoreAndDisplay(inv, ExtractPositions(paragraphs, inv.tocItems, failed), 0, TRUE)
    /\ UNCHANGED <<docVars, levelVars, resolverVars, readerVars>>

\* Mutant of SyncFailed: the catch logs the error and leaves the panel alone
SyncFailed_Silent ==
  \E inv \in InFlight :
    /\ inv.pc \in {"para_items", "para_props", "ranges"}
    /\ toc' = Finish(inv)
    /\ tocPromise' = "fulfilled"
    /\ UNCHANGED <<currentTocItems, tocContent, lastExtraction>>
    /\ UNCHANGED <<docVars, levelVars, resolverVars, readerVars>>

\* Mutant of SyncFailed: the catch puts back the sequence that the last
\* successful invocation stored
SyncFailed_Restoring ==
  \E inv \in InFlight :
    /\ inv.pc \in {"para_items", "para_props", "ranges"}
    /\ tocContent' = [kind |-> "error"]
    /\ toc' = Finish(inv)
    /\ tocPromise' = "fulfilled"
    /\ currentTocItems' = IF lastExtraction.stored THEN lastExtraction.tocItems
                          ELSE currentTocItems
    /\ UNCHANGED lastExtraction
    /\ UNCHANGED <<docVars, levelVars, resolverVars, readerVars>>

\* all drafts: a sync outside the content-control pass rejects; the outer
\* catch shows the error
SyncFailed ==
  \E inv \in InFlight :
    /\ inv.pc \in {"para_items", "para_props", "ranges"}
    /\ tocContent' = [kind |-> "error"]
    /\ toc' = Finish(inv)
    /\ tocPromise' = "fulfilled"
    /\ UNCHANGED <<currentTocItems, lastExtraction>>
    /\ UNCHANGED <<docVars, levelVars, resolverVars, readerVars>>

getTableOfContents ==
  \/ Taskpane_Start
  \/ Offset_Start
  \/ Cc_ItemsLoaded
  \/ Cc_SyncFailed
  \/ Cc_PropsLoaded
  \/ Taskpane_ParagraphItemsLoaded
  \/ Cc_ParagraphsLoaded
  \/ Outline_ParagraphsLoaded
  \/ Offset_ParagraphsLoaded
  \/ Offset_RangesLoaded
  \/ SyncFailed

InitExtract ==
  /\ InitIdleLevel
  /\ InitIdleReaders
  /\ InitIdleResolver
  /\ draft \in {"cc", "outline", "offset"}
  /\ paragraphs \in Selections(AllParagraphs, MaxParagraphs)
  /\ contentControls \in (IF draft = "cc" THEN Selections(AllControls, MaxControls)
                                            ELSE {<<>>})
  /\ currentTocItems = <<>>
  /\ tocContent = [kind |-> "initial"]
  /\ toc = NoInvocations
  /\ lastExtraction = NoExtraction
  /\ tocPromise = "none"

NextExtract == getTableOfContents

SpecExtract == InitExtract /\ [][NextExtract]_vars

(***************************************************************************)
(* C4: content-control precedence (content-control draft).  The paragraph  *)
(* scan runs only when the content-control pass yielded zero entries, and  *)
(* whenever that pass yielded an entry (a content control with text        *)
(* qualifies as a heading) every entry stored in the cache has type        *)
(* "contentControl", also when the document has heading paragraphs.        *)
(***************************************************************************)
QualifyingControls ==
  {i \in 1..Len(contentControls) :
     Trim(contentControls[i].text) # <<>> /\ ControlIsHeading(contentControls[i])}

HeadingParagraphs ==
  {i \in 1..Len(paragraphs) :
     /\ Trim(paragraphs[i].text) # <<>>
     /\ \/ Includes(paragraphs[i].styleBuiltIn, Str_Heading)
        \/ paragraphs[i].styleBuiltIn = Str_Title}

StartStep == BagCardinality(toc') > BagCardinality(toc)

StoreStep ==
  /\ BagCardinality(toc') < BagCardinality(toc)
  /\ tocContent'.kind \in {"list", "empty"}

C5_ClearedAtStartReplacedOnSuccess ==
  [][/\ StartStep => currentTocItems' = <<>>
     /\ StoreStep => (lastExtraction'.stored /\ currentTocItems' = lastExtraction'.tocItems)]_vars

(***************************************************************************)
(* C7: after every successful getTableOfContents of part_000 the entries   *)
(* of currentTocItems are in non-decreasing order of start, also when the  *)
(* range of some entries could not be read (start = 0, end = 0).           *)
(***************************************************************************)
C7_SortedByStart ==
  draft = "offset" => NonDecreasing(currentTocItems)

(***************************************************************************)
(* C8: in every reachable state and in every draft, currentTocItems[i]     *)
(* has index i (0-based, contiguous), and the entries are in the host's    *)
(* traversal order of the records they came from.                          *)
(***************************************************************************)
\* a is b with some elements left out
RECURSIVE IsSubsequence(_, _)
IsSubsequence(a, b) ==
  IF a = <<>> THEN TRUE
  ELSE IF b = <<>> THEN FALSE
  ELSE IF a[1] = b[1] THEN IsSubsequence(Tail(a), Tail(b))
  ELSE IsSubsequence(a, Tail(b))

TrimmedTexts(records) == [i \in 1..Len(records) |-> Trim(records[i].text)]

FromContentControls(items) ==
  items # <<>> /\ "type" \in DOMAIN items[1] /\ items[1].type = "contentControl"

C8_SequenceIndex ==
  /\ \A i \in 1..Len(currentTocItems) : currentTocItems[i].index = i - 1
  /\ IsSubsequence([i \in 1..Len(currentTocItems) |-> currentTocItems[i].text],
                   IF FromContentControls(currentTocItems)
                   THEN TrimmedTexts(contentControls)
                   ELSE TrimmedTexts(paragraphs))

\* a cache of at least two entries, stored by an extraction
C8_Witness ==
  /\ lastExtraction.stored
  /\ currentTocItems = lastExtraction.tocItems
  /\ Len(currentTocItems) >= 2
  /\ currentTocItems[2].index = 1

(***************************************************************************)
(* C9: a paragraph whose style is "Title" and whose trimmed text is not    *)
(* empty yields a cache entry with level 0, whatever its outline level, in *)
(* every draft (stated for the extractions that scanned the paragraphs).   *)
(***************************************************************************)
C9_TitleLevelZero ==
  (/\ lastExtraction.stored
   /\ lastExtraction.paraScan
   /\ currentTocItems = lastExtraction.tocItems)
  => \A p \in 1..Len(paragraphs) :
       (paragraphs[p].styleBuiltIn = Str_Title /\ Trim(paragraphs[p].text) # <<>>)
       => \E i \in 1..Len(currentTocItems) :
            /\ currentTocItems[i].text = Trim(paragraphs[p].text)
            /\ currentTocItems[i].level = 0

(***************************************************************************)
(* Readers of the cache: the auto-tracking timer, getCurrentSection and    *)
(* navigateToSection.  Word.run calls its batch function later, so an      *)
(* invocation is first "called" and then begins.                           *)
(***************************************************************************)
MaxScannedParagraphs == 200

Str_Heading1 == Str_Heading \o <<" ", "1">>
Str_Heading2 == Str_Heading \o <<" ", "2">>

\* the values of the "sectionHeadingStyle" select
SectionHeadingStyles == {Str_Heading1, Str_Heading2}

\* host: the offsets at which the selection may start
CursorPositions ==
  {0} \cup {RangeStart(paragraphs, i) : i \in 1..Len(paragraphs)}

\* "Detecting...", and the locals of getCurrentSection not assigned yet
Detecting ==
  /\ currentSection' = [computed |-> FALSE]
  /\ cursorPosition' = 0
  /\ sectionHeadings' = <<>>

NewPoll(headingStyle) ==
  [pc |-> "called", style |-> headingStyle, cursor |-> 0, parent |-> 0,
   headings |-> <<>>, next |-> 0]

PollsInFlight == BagToSet(polls)

ReplacePoll(poll, next) == (polls (-) SetToBag({poll})) (+) SetToBag({next})

FinishPoll(poll) == polls (-) SetToBag({poll})

\* function toggleAutoTracking(), the checkbox checked
ToggleAutoTrackingOn ==
  /\ Cardinality(timers) < MaxTimers
  /\ LET id == Min((1..MaxTimers) \ timers)
     IN /\ timers' = timers \cup {id}
        /\ autoTrackInterval' = id
  /\ UNCHANGED <<polls, navs>>
  /\ UNCHANGED <<docVars, tocVars, levelVars, resolverVars>>

\* function toggleAutoTracking(), the checkbox not checked
ToggleAutoTrackingOff ==
  /\ IF autoTrackInterval # 0
     THEN /\ timers' = timers \ {autoTrackInterval}
          /\ autoTrackInterval' = 0
     ELSE UNCHANGED <<timers, autoTrackInterval>>
  /\ UNCHANGED <<polls, navs>>
  /\ UNCHANGED <<docVars, tocVars, levelVars, resolverVars>>

\* Mutant of TimerTick: the callback calls getCurrentSection() without looking
\* at the cache
TimerTick_Ungated ==
  \E t \in timers :
    /\ BagCardinality(polls) < MaxPolls
    /\ polls' = polls (+) SetToBag({NewPoll(Str_Heading1)})
    /\ UNCHANGED <<autoTrackInterval, timers, navs>>
    /\ UNCHANGED <<docVars, tocVars, levelVars, resolverVars>>

\* the callback of setInterval in toggleAutoTracking
TimerTick ==
  \E t \in timers :
    /\ Len(currentTocItems) > 0 => BagCardinality(polls) < MaxPolls
    /\ polls' = IF Len(currentTocItems) > 0
                THEN polls (+) SetToBag({NewPoll(Str_Heading1)})
                ELSE polls
    /\ UNCHANGED <<autoTrackInterval, timers, navs>>
    /\ UNCHANGED <<docVars, tocVars, levelVars, resolverVars>>

\* the click handler of the "getCurrentSection" button
GetCurrentSection_Click ==
  /\ draft \in {"cc", "outline", "offset"}
  /\ BagCardinality(polls) < MaxPolls
  /\ \E headingStyle \in (IF draft = "cc" THEN SectionHeadingStyles ELSE {Str_Heading1}) :
       polls' = polls (+) SetToBag({NewPoll(headingStyle)})
  /\ UNCHANGED <<autoTrackInterval, timers, navs>>
  /\ UNCHANGED <<docVars, tocVars, levelVars, resolverVars>>

\* getCurrentSection of the outline-level draft and of part_000: the segment up
\* to the sync, which returns at once when the cache is empty
Cache_Poll_Begin ==
  \E poll \in PollsInFlight :
    /\ draft \in {"outline", "offset"}
    /\ poll.pc = "called"
    /\ polls' = IF Len(currentTocItems) = 0
                THEN FinishPoll(poll)
                ELSE ReplacePoll(poll, [poll EXCEPT !.pc = "selection"])
    /\ Detecting
    /\ UNCHANGED <<autoTrackInterval, timers, navs>>
    /\ UNCHANGED <<docVars, tocVars, levelVars>>

\* Mutant of Offset_Poll_SelectionLoaded: the resolver takes the entries before
\* the section out of the cache (a scan by shift() in place of an index)
Offset_Poll_SelectionLoaded_Consuming ==
  \E poll \in PollsInFlight :
    /\ draft = "offset"
    /\ poll.pc = "selection"
    /\ \E cursor \in CursorPositions :
         LET section == findCurrentSection(cursor)
         IN /\ cursorPosition' = cursor
            /\ currentSection' = [computed |-> TRUE, result |-> section]
            /\ currentTocItems' =
                 IF section.index > 0
                 THEN SubSeq(currentTocItems, section.index + 1, Len(currentTocItems))
                 ELSE currentTocItems
            /\ tocContent' = highlightCurrentSectionInTOC(tocContent, section)
    /\ polls' = FinishPoll(poll)
    /\ UNCHANGED sectionHeadings
    /\ UNCHANGED <<autoTrackInterval, timers, navs>>
    /\ UNCHANGED <<docVars, levelVars>>
    /\ UNCHANGED <<toc, lastExtraction, tocPromise>>

\* part_000 getCurrentSection: the sync that loads the selection resolves
Offset_Poll_SelectionLoaded ==
  \E poll \in PollsInFlight :
    /\ draft = "offset"
    /\ poll.pc = "selection"
    /\ \E cursor \in CursorPositions :
         /\ cursorPosition' = cursor
         /\ currentSection' = [computed |-> TRUE, result |-> findCurrentSection(cursor)]
         /\ tocContent' = highlightCurrentSectionInTOC(tocContent, findCurrentSection(cursor))
    /\ polls' = FinishPoll(poll)
    /\ UNCHANGED sectionHeadings
    /\ UNCHANGED <<autoTrackInterval, timers, navs>>
    /\ UNCHANGED <<docVars, levelVars>>
    /\ UNCHANGED <<currentTocItems, toc, lastExtraction, tocPromise>>

\* outline-level draft getCurrentSection: the sync that loads the selection
\* resolves; the number of cached headings is shown
Outline_Poll_SelectionLoaded ==
  \E poll \in PollsInFlight :
    /\ draft = "outline"
    /\ poll.pc = "selection"
    /\ polls' = FinishPoll(poll)
    /\ UNCHANGED <<autoTrackInterval, timers, navs>>
    /\ UNCHANGED <<docVars, tocVars, levelVars, resolverVars>>

\* all drafts: the sync that loads the selection (or the content control of
\* the selection) rejects; the catch shows the error
Poll_SyncFailed ==
  \E poll \in PollsInFlight :
    /\ poll.pc \in {"selection", "control"}
    /\ polls' = FinishPoll(poll)
    /\ UNCHANGED <<autoTrackInterval, timers, navs>>
    /\ UNCHANGED <<docVars, tocVars, levelVars, resolverVars>>

\* content-control draft getCurrentSection: the segment up to the first sync
Cc_Poll_Begin ==
  \E poll \in PollsInFlight :
    /\ draft = "cc"
    /\ poll.pc = "called"
    /\ polls' = ReplacePoll(poll, [poll EXCEPT !.pc = "selection"])
    /\ Detecting
    /\ UNCHANGED <<autoTrackInterval, timers, navs>>
    /\ UNCHANGED <<docVars, tocVars, levelVars>>

\* Mutant of Cc_Poll_SelectionLoaded: the paragraph scan runs first, whether
\* or not the cursor is inside a content control
Cc_Poll_SelectionLoaded_ScanFirst ==
  \E poll \in PollsInFlight :
    /\ draft = "cc"
    /\ poll.pc = "selection"
    /\ \E cursor \in CursorPositions, parent \in 0..Len(contentControls) :
         polls' = ReplacePoll(poll,
                    [poll EXCEPT !.cursor = cursor, !.parent = parent,
                                 !.pc = "fh_items"])
    /\ UNCHANGED <<autoTrackInterval, timers, navs>>
    /\ UNCHANGED <<docVars, tocVars, levelVars, resolverVars>>

\* content-control draft: the sync that loads the selection resolves; parent is
\* the content control around the cursor, 0 for none
Cc_Poll_SelectionLoaded ==
  \E poll \in PollsInFlight :
    /\ draft = "cc"
    /\ poll.pc = "selection"
    /\ \E cursor \in CursorPositions, parent \in 0..Len(contentControls) :
         polls' = ReplacePoll(poll,
                    [poll EXCEPT !.cursor = cursor, !.parent = parent,
                                 !.pc = IF parent # 0 THEN "control" ELSE "fh_items"])
    /\ UNCHANGED <<autoTrackInterval, timers, navs>>
    /\ UNCHANGED <<docVars, tocVars, levelVars, resolverVars>>

\* the test of getCurrentSection on the title and tag of the content control
IsSectionControl(control, headingStyle) ==
  \/ Includes(ToLowerCase(control.title), str_section)
  \/ Includes(ToLowerCase(control.title), str_heading)
  \/ Includes(ToLowerCase(control.tag), str_section)
  \/ Includes(ToLowerCase(control.tag), str_heading)
  \/ Includes(ToLowerCase(control.title), ToLowerCase(headingStyle))

\* the section that getCurrentSection builds from the content control
ControlSection(control, id, cursor) ==
  [title |-> IF Trim(control.text) # <<>> THEN Trim(control.text)
             ELSE IF control.title # <<>> THEN control.title
             ELSE IF control.tag # <<>> THEN control.tag
             ELSE Str_ContentControl \o <<" ", id>>,
   start |-> cursor,
   end |-> cursor,
   style |-> Str_ContentControl \o <<":", " ">>
             \o (IF control.title # <<>> THEN control.title ELSE control.tag),
   type |-> "contentControl",
   id |-> id]

\* content-control draft: the sync that loads the content control resolves
Cc_Poll_ControlLoaded ==
  \E poll \in PollsInFlight :
    /\ draft = "cc"
    /\ poll.pc = "control"
    /\ IF IsSectionControl(contentControls[poll.parent], poll.style)
       THEN /\ polls' = FinishPoll(poll)
            /\ cursorPosition' = poll.cursor
            /\ currentSection' =
                 [computed |-> TRUE,
                  result |-> ControlSection(contentControls[poll.parent], poll.parent,
                                            poll.cursor)]
            /\ UNCHANGED sectionHeadings
       ELSE /\ polls' = ReplacePoll(poll, [poll EXCEPT !.pc = "fh_items"])
            /\ UNCHANGED resolverVars
    /\ UNCHANGED <<autoTrackInterval, timers, navs>>
    /\ UNCHANGED <<docVars, tocVars, levelVars>>

\* the test of findHeadingsByStyle on the style of a paragraph
MatchesHeadingStyle(st, headingStyle) ==
  \/ st = headingStyle
  \/ headingStyle = Str_Heading1 /\ Includes(st, Str_Heading \o <<"1">>)
  \/ headingStyle = Str_Heading2 /\ Includes(st, Str_Heading \o <<"2">>)

\* Mutant of NextSectionHeading: the scan is not capped, every paragraph of
\* the document is inspected
NextSectionHeading_Uncapped(headingStyle, from) ==
  LET hits == {i \in from..Len(paragraphs) :
                 /\ MatchesHeadingStyle(paragraphs[i].styleBuiltIn, headingStyle)
                 /\ Trim(paragraphs[i].text) # <<>>}
  IN IF hits = {} THEN 0 ELSE Min(hits)

\* findHeadingsByStyle: the next paragraph from position from on, among the
\* first min(200, n) paragraphs, for which a range is loaded; 0 for none
NextSectionHeading(headingStyle, from) ==
  LET maxParagraphs == IF MaxScannedParagraphs < Len(paragraphs)
                       THEN MaxScannedParagraphs ELSE Len(paragraphs)
      hits == {i \in from..maxParagraphs :
                 /\ MatchesHeadingStyle(paragraphs[i].styleBuiltIn, headingStyle)
                 /\ Trim(paragraphs[i].text) # <<>>}
  IN IF hits = {} THEN 0 ELSE Min(hits)

\* insertion of a heading into a sequence sorted by start, after the headings
\* with an equal start
RECURSIVE InsertByStart(_, _)
InsertByStart(sorted, heading) ==
  IF sorted = <<>> THEN <<heading>>
  ELSE IF sorted[Len(sorted)].start <= heading.start
       THEN Append(sorted, heading)
       ELSE Append(InsertByStart(SubSeq(sorted, 1, Len(sorted) - 1), heading),
                   sorted[Len(sorted)])

\* headings.sort((a, b) => a.start - b.start)
RECURSIVE SortByStart(_)
SortByStart(headings) ==
  IF headings = <<>> THEN <<>>
  ELSE InsertByStart(SortByStart(SubSeq(headings, 1, Len(headings) - 1)),
                     headings[Len(headings)])

\* the end of findHeadingsByStyle and the rest of getCurrentSection
FinishFindHeadings(poll, headings) ==
  LET sorted == SortByStart(headings)
  IN /\ polls' = FinishPoll(poll)
     /\ IF Len(sorted) = 0
        THEN UNCHANGED resolverVars
        ELSE /\ sectionHeadings' = sorted
             /\ cursorPosition' = poll.cursor
             /\ currentSection' =
                  [computed |-> TRUE,
                   result |-> findSectionFromPosition(poll.cursor, sorted)]

\* findHeadingsByStyle: the sync that loads paragraphs.items resolves
Cc_Poll_ParagraphItemsLoaded ==
  \E poll \in PollsInFlight :
    /\ draft = "cc"
    /\ poll.pc = "fh_items"
    /\ polls' = ReplacePoll(poll, [poll EXCEPT !.pc = "fh_props"])
    /\ UNCHANGED <<autoTrackInterval, timers, navs>>
    /\ UNCHANGED <<docVars, tocVars, levelVars, resolverVars>>

\* findHeadingsByStyle: the sync that loads the paragraphs' properties resolves
\* and the loop runs up to its first sync
Cc_Poll_ParagraphsLoaded ==
  \E poll \in PollsInFlight :
    /\ draft = "cc"
    /\ poll.pc = "fh_props"
    /\ LET i == NextSectionHeading(poll.style, 1)
       IN IF i = 0
          THEN FinishFindHeadings(poll, poll.headings)
          ELSE /\ polls' = ReplacePoll(poll, [poll EXCEPT !.pc = "fh_range", !.next = i])
               /\ UNCHANGED resolverVars
    /\ UNCHANGED <<autoTrackInterval, timers, navs>>
    /\ UNCHANGED <<docVars, tocVars, levelVars>>

\* findHeadingsByStyle: the sync that loads the range of a heading resolves and
\* the loop runs up to its next sync
Cc_Poll_RangeLoaded ==
  \E poll \in PollsInFlight :
    /\ draft = "cc"
    /\ poll.pc = "fh_range"
    /\ LET para == paragraphs[poll.next]
           headings == Append(poll.headings,
                         [title |-> Trim(para.text),
                          start |-> RangeStart(paragraphs, poll.next),
                          end |-> RangeEnd(paragraphs, poll.next),
                          style |-> para.styleBuiltIn])
           i == NextSectionHeading(poll.style, poll.next + 1)
       IN IF i = 0
          THEN FinishFindHeadings(poll, headings)
          ELSE /\ polls' = ReplacePoll(poll, [poll EXCEPT !.headings = headings,
                                                          !.next = i])
               /\ UNCHANGED resolverVars
    /\ UNCHANGED <<autoTrackInterval, timers, navs>>
    /\ UNCHANGED <<docVars, tocVars, levelVars>>

\* findHeadingsByStyle: one of its syncs rejects; its catch logs the error and
\* the headings found so far are used
Cc_Poll_FindFailed ==
  \E poll \in PollsInFlight :
    /\ draft = "cc"
    /\ poll.pc \in {"fh_items", "fh_props", "fh_range"}
    /\ FinishFindHeadings(poll, poll.headings)
    /\ UNCHANGED <<autoTrackInterval, timers, navs>>
    /\ UNCHANGED <<docVars, tocVars, levelVars>>

getCurrentSection ==
  \/ GetCurrentSection_Click
  \/ Cache_Poll_Begin
  \/ Offset_Poll_SelectionLoaded
  \/ Outline_Poll_SelectionLoaded
  \/ Poll_SyncFailed
  \/ Cc_Poll_Begin
  \/ Cc_Poll_SelectionLoaded
  \/ Cc_Poll_ControlLoaded
  \/ Cc_Poll_ParagraphItemsLoaded
  \/ Cc_Poll_ParagraphsLoaded
  \/ Cc_Poll_RangeLoaded
  \/ Cc_Poll_FindFailed

NavsInFlight == BagToSet(navs)

\* the click handler of a TOC item: navigateToSection(index) up to Word.run
NavigateToSection_Click ==
  /\ tocContent.kind = "list"
  /\ BagCardinality(navs) < MaxNavigations
  /\ \E index \in 0..(Len(tocContent.items) - 1) :
       navs' = IF index < 0 \/ index >= Len(currentTocItems)
               THEN navs
               ELSE navs (+) SetToBag({[pc |-> "called", index |-> index]})
  /\ UNCHANGED <<autoTrackInterval, timers, polls>>
  /\ UNCHANGED <<docVars, tocVars, levelVars, resolverVars>>

\* Mutant of Navigate_Begin: the batch function relies on the index check of
\* the click and selects without looking at the entry
Navigate_Begin_Unchecked ==
  \E nav \in NavsInFlight :
    /\ nav.pc = "called"
    /\ navs' = (navs (-) SetToBag({nav})) (+) SetToBag({[nav EXCEPT !.pc = "select"]})
    /\ UNCHANGED <<autoTrackInterval, timers, polls>>
    /\ UNCHANGED <<docVars, tocVars, levelVars, resolverVars>>

\* navigateToSection: the batch function up to its sync; reading .start of a
\* missing entry throws, which the catch logs
Navigate_Begin ==
  \E nav \in NavsInFlight :
    /\ nav.pc = "called"
    /\ navs' = IF /\ nav.index < Len(currentTocItems)
                  /\ "start" \in DOMAIN currentTocItems[nav.index + 1]
                  /\ currentTocItems[nav.index + 1].start >= 0
               THEN (navs (-) SetToBag({nav})) (+) SetToBag({[nav EXCEPT !.pc = "select"]})
               ELSE navs (-) SetToBag({nav})
    /\ UNCHANGED <<autoTrackInterval, timers, polls>>
    /\ UNCHANGED <<docVars, tocVars, levelVars, resolverVars>>

\* navigateToSection: the sync that selects the range resolves, and the timeout
\* that calls getCurrentSection() is set
Navigate_Selected ==
  \E nav \in NavsInFlight :
    /\ nav.pc = "select"
    /\ BagCardinality(polls) < MaxPolls
    /\ navs' = navs (-) SetToBag({nav})
    /\ polls' = polls (+) SetToBag({NewPoll(Str_Heading1)})
    /\ UNCHANGED <<autoTrackInterval, timers>>
    /\ UNCHANGED <<docVars, tocVars, levelVars, resolverVars>>

\* navigateToSection: the sync that selects the range rejects
Navigate_SyncFailed ==
  \E nav \in NavsInFlight :
    /\ nav.pc = "select"
    /\ navs' = navs (-) SetToBag({nav})
    /\ UNCHANGED <<autoTrackInterval, timers, polls>>
    /\ UNCHANGED <<docVars, tocVars, levelVars, resolverVars>>

navigateToSection ==
  \/ NavigateToSection_Click
  \/ Navigate_Begin
  \/ Navigate_Selected
  \/ Navigate_SyncFailed

toggleAutoTracking ==
  \/ ToggleAutoTrackingOn
  \/ ToggleAutoTrackingOff
  \/ TimerTick

(***************************************************************************)
(* The add-in: the document is drawn at Init, and the handlers interleave  *)
(* at their syncs.                                                         *)
(***************************************************************************)
Init ==
  /\ InitIdleLevel
  /\ InitIdleResolver
  /\ InitIdleReaders
  /\ draft \in {"cc", "outline", "offset"}
  /\ paragraphs \in Windows(AllParagraphs, MaxParagraphs)
  /\ contentControls \in (IF draft = "cc" THEN Selections(AllControls, MaxControls)
                                            ELSE {<<>>})
  /\ currentTocItems = <<>>
  /\ tocContent = [kind |-> "initial"]
  /\ toc = NoInvocations
  /\ lastExtraction = NoExtraction
  /\ tocPromise = "none"

Next ==
  \/ getTableOfContents
  \/ getCurrentSection
  \/ navigateToSection
  \/ toggleAutoTracking

Spec == Init /\ [][Next]_vars

\* the sequences that one extraction of the draft produces for the document
CompleteExtractions ==
  IF draft = "cc"
  THEN {ProcessContentControls(contentControls, 1, <<>>),
        ProcessParagraphs(paragraphs, 1, <<>>)}
  ELSE IF draft = "outline"
  THEN {SortByIndex(ProcessOutlineParagraphs(paragraphs, 1, <<>>))}
  ELSE LET items == CollectHeadings(paragraphs, 1, <<>>)
       IN {ExtractPositions(paragraphs, items, failed) :
             failed \in SUBSET (1..Len(items))}

\* C6: in every interleaving of getTableOfContents invocations suspended at
\* their syncs, timer ticks, getCurrentSection and navigateToSection, the
\* cache that a handler finds when it runs (hence each read of currentTocItems)
\* is empty or the complete sequence that one extraction produces, never a
\* partially built sequence.
C6_NoTornRead ==
  currentTocItems = <<>> \/ currentTocItems \in CompleteExtractions

\* a getCurrentSection of part_000 has read a non-empty cache and waits for
\* the selection while an extraction waits for its ranges
C6_Witness ==
  /\ draft = "offset"
  /\ currentTocItems # <<>>
  /\ \E inv \in InFlight : inv.pc = "ranges" /\ Len(inv.tocItems) > 1
  /\ \E poll \in PollsInFlight : poll.pc = "selection"

(***************************************************************************)
(* Claims about the entry that a paragraph yields.  They are stated for    *)
(* the states in which the cache holds the result of an extraction that    *)
(* scanned the paragraphs.                                                 *)
(***************************************************************************)
ParagraphScanStored ==
  /\ lastExtraction.stored
  /\ lastExtraction.paraScan
  /\ currentTocItems = lastExtraction.tocItems

\* the positions in the cache of the entries with the text of paragraph p
EntriesOf(p) ==
  {i \in 1..Len(currentTocItems) : currentTocItems[i].text = Trim(paragraphs[p].text)}

HasText(p) == Trim(paragraphs[p].text) # <<>>

HasHeadingStyle(p) ==
  \/ Includes(paragraphs[p].styleBuiltIn, Str_Heading)
  \/ paragraphs[p].styleBuiltIn = Str_Title

\* C11: a paragraph with text whose style holds "Heading" followed by the
\* digits N, and whose outlineLevel is present, below 9 and different from N,
\* yields an entry of level N, in every draft.
C11_StyleBeforeOutline ==
  ParagraphScanStored =>
    \A p \in 1..Len(paragraphs) :
      LET digits == MatchHeadingDigits(paragraphs[p].styleBuiltIn)
          ol == paragraphs[p].outlineLevel
      IN (/\ HasText(p)
          /\ digits # <<>>
          /\ ol # <<>> /\ ol[1] < 9 /\ ol[1] # parseInt(digits))
         => /\ EntriesOf(p) # {}
            /\ \A i \in EntriesOf(p) : currentTocItems[i].level = parseInt(digits)

\* C12: a paragraph with text, without a Title or Heading style, is in the
\* stored sequence with level = outlineLevel when its outlineLevel is present
\* and below 9, and is not in the sequence when its outlineLevel is 9 or absent.
C12_OutlineLevelRule ==
  ParagraphScanStored =>
    \A p \in 1..Len(paragraphs) :
      LET ol == paragraphs[p].outlineLevel
      IN (HasText(p) /\ ~HasHeadingStyle(p))
         => IF ol # <<>> /\ ol[1] < 9
            THEN /\ EntriesOf(p) # {}
                 /\ \A i \in EntriesOf(p) : currentTocItems[i].level = ol[1]
            ELSE EntriesOf(p) = {}

(***************************************************************************)
(* Extraction from documents with long texts: a heading of 301 characters, *)
(* a title of 199, a heading of exactly 200, and a long content control.   *)
(***************************************************************************)
LongParagraphs ==
  <<[text |-> <<<<"f", 301>>>>, styleBuiltIn |-> Str_Heading1, outlineLevel |-> <<1>>],
    [text |-> <<<<"g", 199>>>>, styleBuiltIn |-> Str_Title, outlineLevel |-> <<9>>],
    [text |-> <<<<"h", 200>>>>, styleBuiltIn |-> Str_Heading2, outlineLevel |-> <<>>],
    [text |-> <<<<" ", 3>>>>, styleBuiltIn |-> Str_Heading1, outlineLevel |-> <<1>>]>>

LongControls ==
  <<[text |-> <<<<"j", 301>>>>, title |-> Str_Heading1, tag |-> <<>>]>>

InitTextFilter ==
  /\ InitIdleLevel
  /\ InitIdleReaders
  /\ InitIdleResolver
  /\ draft \in {"cc", "outline", "offset"}
  /\ paragraphs \in Selections(LongParagraphs, MaxParagraphs)
  /\ contentControls \in (IF draft = "cc" THEN Selections(LongControls, MaxControls)
                                            ELSE {<<>>})
  /\ currentTocItems = <<>>
  /\ tocContent = [kind |-> "initial"]
  /\ toc = NoInvocations
  /\ lastExtraction = NoExtraction
  /\ tocPromise = "none"

SpecTextFilter == InitTextFilter /\ [][NextExtract]_vars

\* the upper end of the length ceiling that the specification of the add-in
\* gives ("about 200-300 characters")
SpecTextCeiling == 300

\* C13: no entry of currentTocItems has an empty trimmed text or a text longer
\* than the length ceiling, whether it came from a paragraph or from a content
\* control, in every draft.
C13_TextFilter ==
  \A i \in 1..Len(currentTocItems) :
    /\ Trim(currentTocItems[i].text) # <<>>
    /\ TextLength(currentTocItems[i].text) <= SpecTextCeiling

(***************************************************************************)
(* The content-control draft on documents whose content controls have      *)
(* titles and tags of several shapes.                                      *)
(***************************************************************************)
ClassifiedControls ==
  <<[text |-> <<<<"n", 2>>>>, title |-> <<"S", "e", "c", "t", "i", "o", "n", " ", "1">>,
     tag |-> <<>>],
    [text |-> <<<<"o", 2>>>>, title |-> <<>>, tag |-> Str_Title],
    [text |-> <<<<"p", 2>>>>, title |-> <<"H", "E", "A", "D", "I", "N", "G", " ", "1", "2">>,
     tag |-> <<>>],
    [text |-> <<<<"q", 2>>>>, title |-> <<"h", "0">>, tag |-> Str_Heading],
    [text |-> <<<<"r", 2>>>>, title |-> <<"M", "y", " ">> \o Str_Title, tag |-> <<>>],
    [text |-> <<<<"s", 2>>>>, title |-> <<"L", "e", "v", "e", "l", " ", "3">>,
     tag |-> str_heading],
    [text |-> <<<<"t", 2>>>>, title |-> <<"N", "o", "t", "e">>, tag |-> <<"x">>],
    [text |-> <<<<" ", 2>>>>, title |-> Str_Heading1, tag |-> <<>>],
    [text |-> <<<<"u", 2>>>>, title |-> Str_Heading \o <<"7">>, tag |-> <<>>]>>

InitControls ==
  /\ InitIdleLevel
  /\ InitIdleReaders
  /\ InitIdleResolver
  /\ draft = "cc"
  /\ paragraphs \in Windows(AllParagraphs, MaxParagraphs)
  /\ contentControls \in Selections(ClassifiedControls, MaxControls)
  /\ currentTocItems = <<>>
  /\ tocContent = [kind |-> "initial"]
  /\ toc = NoInvocations
  /\ lastExtraction = NoExtraction
  /\ tocPromise = "none"

NextControls ==
  \/ Taskpane_Start
  \/ Cc_ItemsLoaded
  \/ Cc_SyncFailed
  \/ Cc_PropsLoaded
  \/ Taskpane_ParagraphItemsLoaded
  \/ Cc_ParagraphsLoaded
  \/ SyncFailed

SpecControls == InitControls /\ [][NextControls]_vars

\* the qualification that the claim states: title or tag contains, without
\* regard to case, "heading", "title" or "section"
ContainsHeadingWord(s) ==
  \/ Includes(ToLowerCase(s), str_heading)
  \/ Includes(ToLowerCase(s), str_title)
  \/ Includes(ToLowerCase(s), str_section)

\* the step stores an entry of type contentControl with the text of control k
StoresControl(k) ==
  /\ BagCardinality(toc') < BagCardinality(toc)
  /\ \E i \in 1..Len(currentTocItems') :
       /\ currentTocItems'[i].type = "contentControl"
       /\ currentTocItems'[i].text = Trim(contentControls[k].text)

\* C14: when the content-control pass has run over the loaded controls, a
\* control with non-empty text has become an entry if and only if its title or
\* its tag contains, case-insensitively, "heading", "title" or "section".
C14_ControlQualification ==
  [][Cc_PropsLoaded =>
       \A k \in 1..Len(contentControls) :
         Trim(contentControls[k].text) # <<>> =>
           (StoresControl(k) <=>
              (\/ ContainsHeadingWord(contentControls[k].title)
               \/ ContainsHeadingWord(contentControls[k].tag)))]_vars

\* the level that the claim states: the captured digits clamped into 1..9, and
\* 1 when the pattern does not match
ClampedControlLevel(title, tag) ==
  LET digits == MatchControlLevel(ToLowerCase(title \o <<" ">> \o tag))
  IN IF digits = <<>> THEN 1
     ELSE IF parseInt(digits) > 9 THEN 9
     ELSE IF parseInt(digits) < 1 THEN 1
     ELSE parseInt(digits)

\* C15: the level of an entry that came from a content control is the digit
\* group of heading\s*(\d+)|h(\d+)|level\s*(\d+) in the lower-cased title and
\* tag, clamped into 1..9, and 1 when the pattern does not match.
C15_ControlLevelClamped ==
  (lastExtraction.stored /\ ~lastExtraction.paraScan
   /\ currentTocItems = lastExtraction.tocItems)
  => \A i \in 1..Len(currentTocItems) :
       /\ currentTocItems[i].level \in 1..9
       /\ \A k \in 1..Len(contentControls) :
            Trim(contentControls[k].text) = currentTocItems[i].text
            => currentTocItems[i].level =
                 ClampedControlLevel(contentControls[k].title, contentControls[k].tag)

(***************************************************************************)
(* C16: a failure of the content-control pass is not fatal.  No step ends  *)
(* an invocation of the content-control draft with the error shown unless  *)
(* that invocation was in its paragraph scan; an invocation in its         *)
(* paragraph scan carries no content-control entry; and what a paragraph   *)
(* scan stores is the sequence of the paragraph-derived headings.          *)
(***************************************************************************)
InParagraphScan(inv) == inv.pc \in {"para_items", "para_props", "ranges"}

EndsWithError ==
  /\ BagCardinality(toc') < BagCardinality(toc)
  /\ tocContent'.kind = "error"

C16_ContentControlFailureNotFatal ==
  /\ [](draft = "cc" =>
          /\ \A inv \in InFlight : InParagraphScan(inv) => inv.tocItems = <<>>
          /\ ParagraphScanStored =>
               currentTocItems = ProcessParagraphs(paragraphs, 1, <<>>))
  /\ [][(draft = "cc" /\ EndsWithError) =>
          \E inv \in InFlight : InParagraphScan(inv) /\ toc' = Finish(inv)]_vars

\* the document has a qualifying content control, so the content-control pass
\* of the extraction that stored the paragraph-derived headings had failed;
\* the panel lists the headings
C16_Witness ==
  /\ draft = "cc"
  /\ QualifyingControls # {}
  /\ ParagraphScanStored
  /\ currentTocItems # <<>>
  /\ \A i \in 1..Len(currentTocItems) : currentTocItems[i].type = "paragraph"
  /\ tocContent = displayTableOfContents(currentTocItems)
  /\ toc = NoInvocations

(***************************************************************************)
(* C17: when the sync that loads the paragraph collection rejects, the     *)
(* promise that getTableOfContents returned rejects, in every draft; and   *)
(* no other end of an invocation rejects it.                               *)
(***************************************************************************)
\* the pc of an invocation that waits for the paragraph collection
AwaitsParagraphCollection(inv) ==
  inv.pc = (IF draft = "offset" THEN "para_props" ELSE "para_items")

\* the step ends, with the error shown, an invocation that waited for the
\* paragraph collection
SnapshotFailureStep ==
  /\ EndsWithError
  /\ \E inv \in InFlight : AwaitsParagraphCollection(inv) /\ toc' = Finish(inv)

C17_SnapshotFailurePropagates ==
  [][/\ SnapshotFailureStep => tocPromise' = "rejected"
     /\ (StoreStep => tocPromise' = "fulfilled")]_vars

(***************************************************************************)
(* C18: the resolver is read-only.  A step of getCurrentSection (a step    *)
(* that starts, advances or ends a poll, or writes the resolved section)   *)
(* leaves currentTocItems as it was: same entries, same order, same        *)
(* fields, for every cursor and every content of the cache.                *)
(***************************************************************************)
ResolverStep == polls' # polls \/ resolverVars' # resolverVars

C18_ResolverReadOnly ==
  [][ResolverStep => currentTocItems' = currentTocItems]_vars

\* part_000: a section past the first entry has been resolved against a cache
\* that still holds that entry at the index of the section
C18_Witness ==
  /\ draft = "offset"
  /\ currentSection.computed
  /\ currentSection.result.index > 0
  /\ currentSection.result.index < Len(currentTocItems)
  /\ currentTocItems[currentSection.result.index + 1].text = currentSection.result.text
  /\ currentTocItems = lastExtraction.tocItems

(***************************************************************************)
(* Extractions one after the other: getTableOfContents is invoked only     *)
(* when no invocation is in flight.                                        *)
(***************************************************************************)
NextSequential ==
  \/ toc = NoInvocations /\ Taskpane_Start
  \/ toc = NoInvocations /\ Offset_Start
  \/ Cc_ItemsLoaded
  \/ Cc_SyncFailed
  \/ Cc_PropsLoaded
  \/ Taskpane_ParagraphItemsLoaded
  \/ Cc_ParagraphsLoaded
  \/ Outline_ParagraphsLoaded
  \/ Offset_ParagraphsLoaded
  \/ Offset_RangesLoaded
  \/ SyncFailed

SpecSequential == InitExtract /\ [][NextSequential]_vars

\* the step stores the result of an invocation, and an earlier invocation
\* had stored its result
SuccessiveStores == StoreStep /\ lastExtraction.stored

\* the entries of a sequence of part_000 whose range could not be read: the
\* range of a paragraph with text never ends at 0
FailedReads(items) ==
  {i \in 1..Len(items) : "end" \in DOMAIN items[i] /\ items[i].end = 0}

ReportedFromCache(section, cache) ==
  /\ "index" \in DOMAIN section
  /\ \/ section.index = -1
     \/ /\ section.index >= 0
        /\ section.index < Len(cache)
        /\ section.text = cache[section.index + 1].text
        /\ section.level = cache[section.index + 1].level
        /\ section.style = cache[section.index + 1].style

\* the step ends a getCurrentSection that reports a section
ReportsSection ==
  /\ BagCardinality(polls') < BagCardinality(polls)
  /\ currentSection'.computed
  /\ currentSection' # currentSection

C20_ResolutionUsesCache ==
  [][ReportsSection => ReportedFromCache(currentSection'.result, currentTocItems)]_vars

(***************************************************************************)
(* The scan cap of findHeadingsByStyle.  The documents are longer than the *)
(* cap or as long as it, with headings of the selected styles at the       *)
(* beginning, at the cap and just beyond it.                               *)
(***************************************************************************)
ScanCapFiller ==
  [text |-> <<<<"a", 1>>>>, styleBuiltIn |-> Str_Normal, outlineLevel |-> <<9>>]

ScanCapHeading(i) ==
  [text |-> <<<<"h", 2>>>>,
   styleBuiltIn |-> IF i = MaxScannedParagraphs THEN Str_Heading \o <<"1">>
                    ELSE Str_Heading1,
   outlineLevel |-> <<1>>]

ScanCapDocuments ==
  {[i \in 1..d.n |-> IF i \in d.H THEN ScanCapHeading(i) ELSE ScanCapFiller] :
     d \in {[n |-> MaxScannedParagraphs + 1,
             H |-> {1, MaxScannedParagraphs, MaxScannedParagraphs + 1}],
            [n |-> MaxScannedParagraphs + 1, H |-> {MaxScannedParagraphs + 1}],
            [n |-> MaxScannedParagraphs, H |-> {1, MaxScannedParagraphs}]}}

InitScanCap ==
  /\ InitIdleLevel
  /\ InitIdleResolver
  /\ InitIdleReaders
  /\ draft = "cc"
  /\ paragraphs \in ScanCapDocuments
  /\ contentControls \in Selections(AllControls, MaxControls)
  /\ currentTocItems = <<>>
  /\ tocContent = [kind |-> "initial"]
  /\ toc = NoInvocations
  /\ lastExtraction = NoExtraction
  /\ tocPromise = "none"

\* getCurrentSection of the content-control draft, from its button
NextScanCap ==
  \/ GetCurrentSection_Click
  \/ Cc_Poll_Begin
  \/ Cc_Poll_SelectionLoaded
  \/ Cc_Poll_ControlLoaded
  \/ Cc_Poll_ParagraphItemsLoaded
  \/ Cc_Poll_ParagraphsLoaded
  \/ Cc_Poll_RangeLoaded
  \/ Cc_Poll_FindFailed
  \/ Poll_SyncFailed

SpecScanCap == InitScanCap /\ [][NextScanCap]_vars

\* the step returns from findHeadingsByStyle with headings and resolves
ScanResolved ==
  /\ polls' # polls
  /\ sectionHeadings = <<>>
  /\ sectionHeadings' # <<>>

\* the index of the last paragraph that the scan may inspect
LastScanned ==
  IF MaxScannedParagraphs < Len(paragraphs) THEN MaxScannedParagraphs
  ELSE Len(paragraphs)

\* C21: findHeadingsByStyle inspects only the first min(200, n) paragraphs
\* and returns the matching headings sorted ascending by start; for that
\* truncated sequence findSectionFromPosition returns null or an entry whose
\* start is at or before the cursor, and the last scanned heading for every
\* cursor at or beyond its start.
C21_ScanCapTolerated ==
  [][ScanResolved =>
       LET headings == sectionHeadings'
           last == headings[Len(headings)]
           result == currentSection'.result
           lastStart == RangeStart(paragraphs, LastScanned)
       IN /\ \A k \in 1..Len(headings) : headings[k].start <= lastStart
          /\ \A k \in 1..(Len(headings) - 1) :
               headings[k].start <= headings[k + 1].start
          /\ currentSection'.computed
          /\ \/ result = Null
             \/ /\ \E k \in 1..Len(headings) : result = headings[k]
                /\ result.start <= cursorPosition'
          /\ cursorPosition' >= last.start => result = last]_vars

\* a heading lies beyond the cap, the cursor is at or beyond it, and the
\* section reported is the last heading that was scanned
C21_Witness ==
  /\ Len(paragraphs) > MaxScannedParagraphs
  /\ MatchesHeadingStyle(paragraphs[MaxScannedParagraphs + 1].styleBuiltIn, Str_Heading1)
  /\ sectionHeadings # <<>>
  /\ currentSection.computed
  /\ cursorPosition >= RangeStart(paragraphs, MaxScannedParagraphs + 1)
  /\ currentSection.result = sectionHeadings[Len(sectionHeadings)]
  /\ currentSection.result.start = RangeStart(paragraphs, MaxScannedParagraphs)

(***************************************************************************)
(* C22: content-control draft, overlapping invocations of                  *)
(* getTableOfContents that may succeed or fail.  Whenever no invocation is *)
(* in flight the TOC panel agrees with the cache: with a non-empty cache   *)
(* it lists exactly the entries of currentTocItems in order, and it shows  *)
(* "No headings found" or an error message only when the cache is empty.   *)
(***************************************************************************)
C22_PanelAgreesWithCache ==
  (draft = "cc" /\ toc = NoInvocations) =>
    /\ currentTocItems # <<>> => tocContent = displayTableOfContents(currentTocItems)
    /\ tocContent.kind \in {"empty", "error"} => currentTocItems = <<>>

(***************************************************************************)
(* navigateToSection.                                                      *)
(***************************************************************************)
\* the test of navigateToSection on the entry that it reads
HasPositionData(index) ==
  /\ 0 <= index
  /\ index < Len(currentTocItems)
  /\ "start" \in DOMAIN currentTocItems[index + 1]
  /\ currentTocItems[index + 1].start >= 0

\* the invocations of navigateToSection that the step takes to state pc
NavsEntering(pc) ==
  {nav \in BagToSet(navs') : nav.pc = pc /\ CopiesIn(nav, navs') > CopiesIn(nav, navs)}

\* the invocations of navigateToSection that the step takes out of state pc
NavsLeaving(pc) ==
  {nav \in BagToSet(navs) : nav.pc = pc /\ CopiesIn(nav, navs') < CopiesIn(nav, navs)}

C24_TimerDiscipline ==
  /\ Cardinality(timers) <= 1
  /\ autoTrackInterval # 0 <=> timers # {}

\* auto-tracking alone: extractions, the checkbox, the timers and the polls
\* that their ticks start (no click on the button or on a TOC item)
NextTracking ==
  \/ getTableOfContents
  \/ toggleAutoTracking
  \/ Cache_Poll_Begin
  \/ Offset_Poll_SelectionLoaded
  \/ Outline_Poll_SelectionLoaded
  \/ Poll_SyncFailed
  \/ Cc_Poll_Begin
  \/ Cc_Poll_SelectionLoaded
  \/ Cc_Poll_ControlLoaded
  \/ Cc_Poll_ParagraphItemsLoaded
  \/ Cc_Poll_ParagraphsLoaded
  \/ Cc_Poll_RangeLoaded
  \/ Cc_Poll_FindFailed

\* the documents of AllParagraphs and those with a paragraph of the style
\* "Heading 1", which is the style that a poll started by a tick looks for
TrackedParagraphs ==
  Append(AllParagraphs,
         [text |-> <<<<"f", 2>>>>, styleBuiltIn |-> Str_Heading1, outlineLevel |-> <<1>>])

InitTracking ==
  /\ InitIdleLevel
  /\ InitIdleResolver
  /\ InitIdleReaders
  /\ draft \in {"cc", "outline", "offset"}
  /\ paragraphs \in Windows(TrackedParagraphs, MaxParagraphs)
  /\ contentControls \in (IF draft = "cc" THEN Selections(AllControls, MaxControls)
                                            ELSE {<<>>})
  /\ currentTocItems = <<>>
  /\ tocContent = [kind |-> "initial"]
  /\ toc = NoInvocations
  /\ lastExtraction = NoExtraction
  /\ tocPromise = "none"

SpecTracking == InitTracking /\ [][NextTracking]_vars

\* the step starts getCurrentSection (under SpecTracking: a tick does)
TickStartsPoll ==
  \E poll \in BagToSet(polls') :
    poll.pc = "called" /\ CopiesIn(poll, polls') > CopiesIn(poll, polls)

\* C25: a timer tick starts getCurrentSection only if currentTocItems is not
\* empty at the tick; hence no tick starts a poll before the first
\* successful extraction, nor (taskpane.js) between the clearing of the
\* cache by an invocation of getTableOfContents and the end of that
\* invocation.
C25_PollGating ==
  [][TickStartsPoll =>
       /\ Len(currentTocItems) > 0
       /\ lastExtraction.stored
       /\ draft \in {"cc", "outline"} => toc = NoInvocations]_vars

\* C25 as it holds: a timer tick starts getCurrentSection only if
\* currentTocItems is not empty at the tick; hence no tick starts a poll
\* before the first successful extraction, nor (taskpane.js) between a
\* clearing of the cache and the next storing of a result: the cache that the
\* poll finds is the sequence that the last store put there.
C25_PollGatingUntilNextStore ==
  [][TickStartsPoll =>
       /\ Len(currentTocItems) > 0
       /\ lastExtraction.stored
       /\ draft \in {"cc", "outline"} => currentTocItems = lastExtraction.tocItems]_vars

\* taskpane.js: a timer is active and a poll has been started while an
\* extraction that cleared the cache is in flight and another one has stored
C25_Witness ==
  /\ draft \in {"cc", "outline"}
  /\ timers # {}
  /\ \E poll \in PollsInFlight : poll.pc = "called"
  /\ InFlight # {}
  /\ Len(currentTocItems) > 0

(***************************************************************************)
(* C26: highlight validity (part_000).  In every interleaving of           *)
(* getTableOfContents, timer polls and getCurrentSection, the item that    *)
(* highlightCurrentSectionInTOC has marked is an item of the rendered TOC  *)
(* list and is the rendering of currentTocItems[index]; a sentinel result  *)
(* (index -1) marks nothing and removes the previous highlight.            *)
(***************************************************************************)
Highlighted == tocContent.kind = "list" /\ tocContent.current >= 0

FailureStep ==
  /\ BagCardinality(toc') < BagCardinality(toc)
  /\ ~StoreStep

\* the cache as the last successful invocation left it
CacheBeforeInvocation ==
  IF lastExtraction.stored THEN lastExtraction.tocItems ELSE <<>>

InitSection == Init /\ draft = "cc"

SpecSection == InitSection /\ [][NextScanCap]_vars

\* the content control around the cursor of the poll names a section: its
\* title or tag contains "section" or "heading", or its title contains the
\* selected heading style
InSectionControl(poll) ==
  /\ poll.parent # 0
  /\ LET title == ToLowerCase(contentControls[poll.parent].title)
         tag == ToLowerCase(contentControls[poll.parent].tag)
     IN \/ \E word \in {str_section, str_heading} :
             Includes(title, word) \/ Includes(tag, word)
        \/ Includes(title, ToLowerCase(poll.style))

\* the paragraphs with text whose style is the selected one
HeadingsOfStyle(headingStyle) ==
  {i \in 1..Len(paragraphs) :
     /\ MatchesHeadingStyle(paragraphs[i].styleBuiltIn, headingStyle)
     /\ Trim(paragraphs[i].text) # <<>>}

InHeadingScan(poll) == poll.pc \in {"fh_items", "fh_props", "fh_range"}

\* C28: when the cursor is inside a content control that names a section,
\* the section returned is that content control, with start = end = cursor
\* offset and type "contentControl", and neither the paragraph scan nor
\* findSectionFromPosition runs; otherwise the result is
\* findSectionFromPosition over the headings of the selected style, and with
\* no such heading no section is returned and the resolver is not called.
C28_ContentControlFirst ==
  /\ [](draft = "cc" =>
          \A poll \in PollsInFlight : InHeadingScan(poll) => ~InSectionControl(poll))
  /\ [][\A poll \in PollsInFlight :
          (draft = "cc" /\ polls' = FinishPoll(poll)) =>
            /\ (ReportsSection /\ InSectionControl(poll)) =>
                 /\ "type" \in DOMAIN currentSection'.result
                 /\ currentSection'.result.type = "contentControl"
                 /\ currentSection'.result.id = poll.parent
                 /\ currentSection'.result.start = cursorPosition'
                 /\ currentSection'.result.end = cursorPosition'
                 /\ sectionHeadings' = sectionHeadings
            /\ (ReportsSection /\ ~InSectionControl(poll)) =>
                 /\ InHeadingScan(poll)
                 /\ sectionHeadings' # <<>>
                 /\ \A k \in 1..Len(sectionHeadings') :
                      \E i \in HeadingsOfStyle(poll.style) :
                        sectionHeadings'[k].start = RangeStart(paragraphs, i)
                 /\ currentSection'.result =
                      findSectionFromPosition(cursorPosition', sectionHeadings')
            /\ (InHeadingScan(poll) /\ HeadingsOfStyle(poll.style) = {}) =>
                 currentSection' = currentSection /\ sectionHeadings' = sectionHeadings]_vars

\* the content control around the cursor was returned although the document
\* has a heading of the selected style
C28_Witness ==
  /\ draft = "cc"
  /\ currentSection.computed
  /\ "type" \in DOMAIN currentSection.result
  /\ sectionHeadings = <<>>
  /\ HeadingsOfStyle(Str_Heading2) # {}

(***************************************************************************)
(* Termination of getTableOfContents (content-control draft, overlapping   *)
(* invocations).  Every host round trip eventually resolves or rejects:    *)
(* the step that follows a sync is taken when it stays possible.           *)
(***************************************************************************)
\* a sync of an invocation of getTableOfContents (content-control draft)
\* resolves or rejects
HostAnswers ==
  \/ Cc_ItemsLoaded
  \/ Cc_SyncFailed
  \/ Cc_PropsLoaded
  \/ Taskpane_ParagraphItemsLoaded
  \/ Cc_ParagraphsLoaded
  \/ SyncFailed

SpecExtractFair == InitSection /\ [][NextControls]_vars /\ WF_vars(HostAnswers)

====
